---- MODULE Spec2Model ----
(***************************************************************************)
(* A model of the DFMEA agent: the scoring primitives and the entry model  *)
(* of fmea_schema.py, the summary aggregator, the response parser and the  *)
(* orchestrator of agent.py.                                               *)
(*                                                                         *)
(* Python values are records [ty, n, s]: ty is the Python/JSON type, n the *)
(* integer payload (an int's value, a bool's 0/1, a float in tenths, the   *)
(* sign of an infinity) and s the characters of a str.                     *)
(***************************************************************************)
EXTENDS Integers, Sequences, FiniteSets, TLC

VARIABLES call, pc, request, calls, raw_content, response, error, stderr

vars == <<call, pc, request, calls, raw_content, response, error, stderr>>

(***************************************************************************)
(* Bounds of the model.                                                    *)
(***************************************************************************)
\* how far outside [1,10] the enumerated ratings reach
Slack == 2
\* longest decoded array the parser is run on
MaxLen == 2
\* longest token text of the fence comparison
MaxTextLen == 5
\* largest collection of entries the aggregator is run on, but for the
\* collections of eight that make the mean a rounding tie
MaxEntries == 3

(***************************************************************************)
(* Python values.                                                          *)
(***************************************************************************)
PyInt(k) == [ty |-> "int", n |-> k, s |-> <<>>]
PyStr(chars) == [ty |-> "str", n |-> 0, s |-> chars]
\* a float, held in tenths: PyFloat(59) is 5.9
PyFloat(tenths) == [ty |-> "float", n |-> tenths, s |-> <<>>]
PyNaN == [ty |-> "nan", n |-> 0, s |-> <<>>]
PyInf(sign) == [ty |-> "inf", n |-> sign, s |-> <<>>]
PyNone == [ty |-> "null", n |-> 0, s |-> <<>>]
PyBool(b) == [ty |-> "bool", n |-> b, s |-> <<>>]

RiskLevel == {<<"l","o","w">>, <<"m","e","d","i","u","m">>,
              <<"h","i","g","h">>, <<"c","r","i","t","i","c","a","l">>}

(***************************************************************************)
(* fmea_schema.py: scoring primitives.                                     *)
(***************************************************************************)
compute_rpn_sum(severity, occurrence, detection) ==
    severity * occurrence + detection

compute_rpn(severity, occurrence, detection) ==
    severity * occurrence * detection

classify_risk_strict(rpn) ==
    IF rpn > 400 THEN <<"c","r","i","t","i","c","a","l">>
    ELSE IF rpn > 200 THEN <<"h","i","g","h">>
    ELSE IF rpn > 100 THEN <<"m","e","d","i","u","m">>
    ELSE <<"l","o","w">>

classify_risk(rpn) ==
    IF rpn >= 400 THEN <<"c","r","i","t","i","c","a","l">>
    ELSE IF rpn >= 200 THEN <<"h","i","g","h">>
    ELSE IF rpn >= 100 THEN <<"m","e","d","i","u","m">>
    ELSE <<"l","o","w">>

(***************************************************************************)
(* fmea_schema.py: FMEAEntry.  Construction validates every field first    *)
(* (pydantic collects the field errors and stops there); only when all     *)
(* fields pass does the model validator validate_rpn_consistency run.      *)
(***************************************************************************)
TextFields == {"component", "function", "failure_mode", "failure_effect",
               "failure_cause", "recommended_action"}

\* Field(...) of type str: any str, the empty one included
StrFieldOk(v) == v.ty = "str"

\* Field(..., ge=1, le=10) of type int
RatingFieldOk(v) == v.ty = "int" /\ v.n >= 1 /\ v.n <= 10

\* Field(..., ge=1, le=1000) of type int, and rpn_must_be_positive
RpnFieldOk(v) == v.ty = "int" /\ v.n >= 1 /\ v.n <= 1000 /\ ~(v.n < 1)

\* RiskLevel = Literal["low", "medium", "high", "critical"]
RiskFieldOk(v) == v.ty = "str" /\ v.s \in RiskLevel

FieldErrors(kw) ==
    {f \in TextFields \cup {"id"} : ~StrFieldOk(kw[f])}
    \cup {f \in {"severity", "occurrence", "detection"} : ~RatingFieldOk(kw[f])}
    \cup (IF RpnFieldOk(kw["rpn"]) THEN {} ELSE {"rpn"})
    \cup (IF RiskFieldOk(kw["risk_level"]) THEN {} ELSE {"risk_level"})

\* the entry object: the validated fields, ints and strs unwrapped
EntryOf(kw) ==
    [id |-> kw["id"].s,
     component |-> kw["component"].s,
     function |-> kw["function"].s,
     failure_mode |-> kw["failure_mode"].s,
     failure_effect |-> kw["failure_effect"].s,
     failure_cause |-> kw["failure_cause"].s,
     severity |-> kw["severity"].n,
     occurrence |-> kw["occurrence"].n,
     detection |-> kw["detection"].n,
     rpn |-> kw["rpn"].n,
     recommended_action |-> kw["recommended_action"].s,
     risk_level |-> kw["risk_level"].s]

Raised(exc, why) == [ok |-> FALSE, exc |-> exc, why |-> why]
Built(entry) == [ok |-> TRUE, exc |-> "", why |-> {}, entry |-> entry]

\* the model validator with the rpn comparison left out
validate_rpn_consistency_norpn(e) ==
    IF e.risk_level # classify_risk(e.rpn) THEN {"risk_level_mismatch"}
    ELSE {}

\* the model validator with the risk_level comparison left out
validate_rpn_consistency_norisk(e) ==
    LET expected_rpn == e.severity * e.occurrence * e.detection IN
    IF e.rpn # expected_rpn THEN {"rpn_mismatch"}
    ELSE {}

\* the errors of the model validator: empty when the entry is consistent
validate_rpn_consistency(e) ==
    LET expected_rpn == e.severity * e.occurrence * e.detection IN
    IF e.rpn # expected_rpn THEN {"rpn_mismatch"}
    ELSE IF e.risk_level # classify_risk(e.rpn) THEN {"risk_level_mismatch"}
    ELSE {}

\* FMEAEntry(**kw) with the range constraints of the ratings left out
FMEAEntry_norange(kw) ==
    LET bad == FieldErrors(kw) \ {"severity", "occurrence", "detection"} IN
    IF bad # {} \/ \E f \in {"severity", "occurrence", "detection"} : kw[f].ty # "int"
    THEN Raised("ValidationError", bad)
    ELSE LET after == validate_rpn_consistency(EntryOf(kw)) IN
         IF after # {} THEN Raised("ValidationError", after)
         ELSE Built(EntryOf(kw))

\* FMEAEntry(**kw): direct construction
FMEAEntry(kw) ==
    LET bad == FieldErrors(kw) IN
    IF bad # {} THEN Raised("ValidationError", bad)
    ELSE LET after == validate_rpn_consistency(EntryOf(kw)) IN
         IF after # {} THEN Raised("ValidationError", after)
         ELSE Built(EntryOf(kw))

Kwargs(id, text, severity, occurrence, detection, rpn, risk_level) ==
    [f \in TextFields \cup {"id", "severity", "occurrence", "detection",
                            "rpn", "risk_level"} |->
        CASE f = "id" -> id
          [] f = "severity" -> severity
          [] f = "occurrence" -> occurrence
          [] f = "detection" -> detection
          [] f = "rpn" -> rpn
          [] f = "risk_level" -> risk_level
          [] OTHER -> text[f]]

\* the factory building the object without validating it
create_unvalidated(id, text, severity, occurrence, detection) ==
    LET rpn == compute_rpn(severity, occurrence, detection)
        risk_level == classify_risk(rpn)
    IN Built(EntryOf(Kwargs(id, text, PyInt(severity), PyInt(occurrence),
                            PyInt(detection), PyInt(rpn), PyStr(risk_level))))

\* FMEAEntry.create: severity, occurrence and detection are ints here
create(id, text, severity, occurrence, detection) ==
    LET rpn == compute_rpn(severity, occurrence, detection)
        risk_level == classify_risk(rpn)
    IN FMEAEntry(Kwargs(id, text, PyInt(severity), PyInt(occurrence),
                        PyInt(detection), PyInt(rpn), PyStr(risk_level)))

(***************************************************************************)
(* Text.  A text is a sequence of tokens: the code fence ```, the word     *)
(* json, a newline, a blank, the brackets, the comma, any other word, and  *)
(* a whole JSON value that is not an array (an object, a number, a string, *)
(* null).                                                                  *)
(***************************************************************************)
Tok(t) == [t |-> t]
Val(v) == [t |-> "val", v |-> v]
FENCE == Tok("fence")
JSONTAG == Tok("json")
NL == Tok("nl")
SP == Tok("sp")
LB == Tok("[")
RB == Tok("]")
COMMA == Tok(",")
WORD == Tok("word")

\* \s of the regular expressions, and the characters str.strip() removes
IsSpace(c) == c.t \in {"nl", "sp"}

\* the first position from p on that holds no whitespace (Len + 1: none)
SkipSpace(text, p) ==
    CHOOSE q \in p..(Len(text) + 1) :
        /\ q = Len(text) + 1 \/ ~IsSpace(text[q])
        /\ \A r \in p..(q - 1) : IsSpace(text[r])

\* str.strip()
Strip(text) ==
    LET keep == {i \in 1..Len(text) : ~IsSpace(text[i])} IN
    IF keep = {} THEN <<>>
    ELSE SubSeq(text, CHOOSE i \in keep : \A j \in keep : i <= j,
                      CHOOSE i \in keep : \A j \in keep : i >= j)

\* the text from pos on when the next match of an opening fence is at p
\* (0: there is none): what precedes the match is kept, the fence, the
\* tag json and the whitespace after them are dropped
RECURSIVE StripOpeningFences(_, _)
OpeningFenceAt(text, pos, p) ==
    IF p = 0 THEN SubSeq(text, pos, Len(text))
    ELSE SubSeq(text, pos, p - 1)
         \o StripOpeningFences(text,
               SkipSpace(text, IF p + 1 <= Len(text) /\ text[p + 1].t = "json"
                               THEN p + 2 ELSE p + 1))

\* re.sub(r"^```(?:json)?\s*", "", raw, flags=re.MULTILINE), from pos on:
\* ^ is the start of the text or the place after a newline of the text
StripOpeningFences(text, pos) ==
    IF pos > Len(text) THEN <<>>
    ELSE OpeningFenceAt(text, pos,
           LET at == {p \in pos..Len(text) :
                        text[p].t = "fence" /\ (p = 1 \/ text[p - 1].t = "nl")}
           IN IF at = {} THEN 0 ELSE CHOOSE p \in at : \A q \in at : p <= q)

\* a match of \s*```$ starts at p: whitespace, a fence, then the end of the
\* text or a newline
ClosingFenceFrom(text, p, f) ==
    /\ f <= Len(text)
    /\ text[f].t = "fence"
    /\ (f = Len(text) \/ text[f + 1].t = "nl")

\* the text from pos on when the next match of a closing fence starts at p
\* (0: there is none)
RECURSIVE StripClosingFences(_, _)
ClosingFenceAt(text, pos, p) ==
    IF p = 0 THEN SubSeq(text, pos, Len(text))
    ELSE SubSeq(text, pos, p - 1)
         \o StripClosingFences(text, SkipSpace(text, p) + 1)

\* re.sub(r"\s*```$", "", cleaned, flags=re.MULTILINE), from pos on:
\* $ is the end of the text or the place before a newline
StripClosingFences(text, pos) ==
    IF pos > Len(text) THEN <<>>
    ELSE ClosingFenceAt(text, pos,
           LET at == {p \in pos..Len(text) :
                        ClosingFenceFrom(text, p, SkipSpace(text, p))}
           IN IF at = {} THEN 0 ELSE CHOOSE p \in at : \A q \in at : p <= q)

\* agent.py lines 97-99
Clean(raw) == Strip(StripClosingFences(StripOpeningFences(raw, 1), 1))

\* str.find and str.rfind, 1-based; 0 is Python's -1
Find(text, t) ==
    LET at == {i \in 1..Len(text) : text[i].t = t} IN
    IF at = {} THEN 0 ELSE CHOOSE i \in at : \A j \in at : i <= j

RFind(text, t) ==
    LET at == {i \in 1..Len(text) : text[i].t = t} IN
    IF at = {} THEN 0 ELSE CHOOSE i \in at : \A j \in at : i >= j

\* the text strictly between the two positions
Slice_inner(text, start, end) == SubSeq(text, start + 1, end - 1)

\* cleaned[start : end + 1] with 1-based start and end: empty when end < start
Slice(text, start, end) == SubSeq(text, start, end)

(***************************************************************************)
(* json.loads on a token text.  An array decodes to a list of its decoded  *)
(* items; a value token decodes to its value.                              *)
(***************************************************************************)
PyList(items) == [ty |-> "list", n |-> 0, s |-> <<>>, items |-> items]
PyObject(members) == [ty |-> "object", n |-> 0, s |-> <<>>, o |-> members]

DecodeFail == [ok |-> FALSE]

RECURSIVE DecodeValue(_, _)
RECURSIVE DecodeItems(_, _, _)

\* after the item r of an array: a comma and more items, or the bracket
DecodeAfterItem(toks, items, r, q) ==
    IF ~r.ok \/ q > Len(toks) THEN DecodeFail
    ELSE IF toks[q].t = "," THEN DecodeItems(toks, q + 1, Append(items, r.v))
    ELSE IF toks[q].t = "]"
    THEN [ok |-> TRUE, v |-> PyList(Append(items, r.v)), next |-> q + 1]
    ELSE DecodeFail

DecodeItem(toks, items, r) ==
    DecodeAfterItem(toks, items, r, IF r.ok THEN SkipSpace(toks, r.next) ELSE 0)

\* the items of an array, items being those already decoded, from the
\* first position p that holds no whitespace; opening tells that p follows
\* the opening bracket
DecodeItemsAt(toks, p, items, opening) ==
    IF p > Len(toks) THEN DecodeFail
    ELSE IF toks[p].t = "]" /\ opening
    THEN [ok |-> TRUE, v |-> PyList(<<>>), next |-> p + 1]
    ELSE DecodeItem(toks, items, DecodeValue(toks, p))

\* p0 follows the opening bracket or a comma
DecodeItems(toks, p0, items) ==
    DecodeItemsAt(toks, SkipSpace(toks, p0), items, toks[p0 - 1].t = "[")

DecodeValueAt(toks, p) ==
    IF p > Len(toks) THEN DecodeFail
    ELSE IF toks[p].t = "val" THEN [ok |-> TRUE, v |-> toks[p].v, next |-> p + 1]
    ELSE IF toks[p].t = "[" THEN DecodeItems(toks, p + 1, <<>>)
    ELSE DecodeFail

DecodeValue(toks, p0) == DecodeValueAt(toks, SkipSpace(toks, p0))

\* the whole text must be the value, but for whitespace after it
DecodeWhole(toks, r) ==
    IF r.ok /\ SkipSpace(toks, r.next) > Len(toks)
    THEN [ok |-> TRUE, v |-> r.v]
    ELSE DecodeFail

\* json.loads(json_str): one value, whitespace around it, nothing else
json_loads(toks) == DecodeWhole(toks, DecodeValue(toks, 1))

(***************************************************************************)
(* int(x) and the f-string "DFMEA-{i + 1:03d}".                            *)
(***************************************************************************)
DigitChars == <<"0", "1", "2", "3", "4", "5", "6", "7", "8", "9">>

IsDigit(c) == \E k \in 1..10 : DigitChars[k] = c
DigitVal(c) == (CHOOSE k \in 1..10 : DigitChars[k] = c) - 1

RECURSIVE DigitsVal(_)
DigitsVal(chars) ==
    IF chars = <<>> THEN 0
    ELSE 10 * DigitsVal(SubSeq(chars, 1, Len(chars) - 1)) + DigitVal(chars[Len(chars)])

RECURSIVE Digits(_)
Digits(k) ==
    IF k < 10 THEN <<DigitChars[k + 1]>>
    ELSE Digits(k \div 10) \o <<DigitChars[(k % 10) + 1]>>

\* format(k, "03d") for k >= 0: at least three digits
Format03d(k) ==
    LET d == Digits(k) IN
    IF Len(d) >= 3 THEN d ELSE [j \in 1..(3 - Len(d)) |-> "0"] \o d

\* f"DFMEA-{i + 1:03d}"
EntryId(i) == <<"D", "F", "M", "E", "A", "-">> \o Format03d(i + 1)

IntOk(k) == [exc |-> "", n |-> k]
IntRaises(exc) == [exc |-> exc, n |-> 0]

\* the characters between the first and the last that is no blank
StripBlanks(chars) ==
    LET keep == {i \in 1..Len(chars) : chars[i] # " "} IN
    IF keep = {} THEN <<>>
    ELSE SubSeq(chars, CHOOSE i \in keep : \A j \in keep : i <= j,
                       CHOOSE i \in keep : \A j \in keep : i >= j)

\* the value of a sign and the characters after it
IntOfSigned(sign, digits) ==
    IF digits = <<>> \/ \E i \in 1..Len(digits) : ~IsDigit(digits[i])
    THEN IntRaises("ValueError")
    ELSE IF sign = "-" THEN IntOk(0 - DigitsVal(digits))
    ELSE IntOk(DigitsVal(digits))

IntOfBody(body) ==
    IF body # <<>> /\ body[1] \in {"-", "+"}
    THEN IntOfSigned(body[1], Tail(body))
    ELSE IntOfSigned("+", body)

\* int(str): blanks around, an optional sign, then decimal digits only
IntOfStr(chars) == IntOfBody(StripBlanks(chars))

\* int(x): truncation of a float toward zero, ValueError for NaN,
\* OverflowError for an infinity, TypeError for None, a list or a dict
int(v) ==
    CASE v.ty \in {"int", "bool"} -> IntOk(v.n)
      [] v.ty = "float" -> IntOk(IF v.n >= 0 THEN v.n \div 10 ELSE 0 - ((0 - v.n) \div 10))
      [] v.ty = "nan" -> IntRaises("ValueError")
      [] v.ty = "inf" -> IntRaises("OverflowError")
      [] v.ty = "str" -> IntOfStr(v.s)
      [] OTHER -> IntRaises("TypeError")

(***************************************************************************)
(* fmea_schema.py: FMEASummary.from_entries.  avg_rpn is held in           *)
(* hundredths.  round(x, 2) rounds the double x correctly; a tie needs     *)
(* sum/len to be an odd multiple of 1/200, so len a multiple of 8, and is  *)
(* modelled as round-half-even, which is what Python does when the tie is  *)
(* a double (n + 1/8, 3/8, 5/8, 7/8).                                      *)
(***************************************************************************)
RECURSIVE SumRpn(_)
SumRpn(entries) ==
    IF entries = <<>> THEN 0 ELSE Head(entries).rpn + SumRpn(Tail(entries))

MaxRpn(entries) ==
    CHOOSE m \in {entries[i].rpn : i \in 1..Len(entries)} :
        \A i \in 1..Len(entries) : entries[i].rpn <= m

\* the mean cut off after two decimals instead of rounded
Round2_trunc(num, den) == (100 * num) \div den

Round2(num, den) ==
    LET q == (100 * num) \div den
        r == (100 * num) % den
    IN IF 2 * r < den THEN q
       ELSE IF 2 * r > den THEN q + 1
       ELSE IF q % 2 = 0 THEN q ELSE q + 1

\* the count leaving out the first entry
CountLevel_skipfirst(entries, level) ==
    Cardinality({i \in 2..Len(entries) : entries[i].risk_level = level})

CountLevel(entries, level) ==
    Cardinality({i \in 1..Len(entries) : entries[i].risk_level = level})

from_entries(entries) ==
    IF entries = <<>>
    THEN [total_entries |-> 0, critical_count |-> 0, high_count |-> 0,
          medium_count |-> 0, low_count |-> 0, max_rpn |-> 0, avg_rpn |-> 0]
    ELSE [total_entries |-> Len(entries),
          critical_count |-> CountLevel(entries, <<"c","r","i","t","i","c","a","l">>),
          high_count |-> CountLevel(entries, <<"h","i","g","h">>),
          medium_count |-> CountLevel(entries, <<"m","e","d","i","u","m">>),
          low_count |-> CountLevel(entries, <<"l","o","w">>),
          max_rpn |-> MaxRpn(entries),
          avg_rpn |-> Round2(SumRpn(entries), Len(entries))]

(***************************************************************************)
(* agent.py: _parse_and_validate_entries.                                  *)
(***************************************************************************)
\* the keyword arguments of FMEAEntry.create in the order they are evaluated
ArgOrder == <<"component", "function", "failure_mode", "failure_effect",
              "failure_cause", "severity", "occurrence", "detection",
              "recommended_action">>

RatingKeys == {"severity", "occurrence", "detection"}

\* what evaluating raw_entry[k], or int(raw_entry[k]) for a rating, raises
ArgRaises(raw_entry, k) ==
    IF k \notin DOMAIN raw_entry.o THEN "KeyError"
    ELSE IF k \in RatingKeys THEN int(raw_entry.o[k]).exc
    ELSE ""

ElemRaises(exc) == [exc |-> exc]
ElemBuilt(entry) == [exc |-> "", entry |-> entry]

\* the arguments, by their place in ArgOrder, whose evaluation raises
RaisingArgs(raw_entry) ==
    {j \in 1..Len(ArgOrder) : ArgRaises(raw_entry, ArgOrder[j]) # ""}

ElemOutcome(r) == IF r.ok THEN ElemBuilt(r.entry) ELSE ElemRaises(r.exc)

\* the call of the factory, bad being the arguments that raise: the first
\* of them ends the evaluation of the arguments
TryCreate(i, raw_entry, bad) ==
    IF bad # {}
    THEN ElemRaises(ArgRaises(raw_entry,
                              ArgOrder[CHOOSE j \in bad : \A k \in bad : j <= k]))
    ELSE ElemOutcome(create(PyStr(EntryId(i)),
                            [f \in TextFields |-> raw_entry.o[f]],
                            int(raw_entry.o["severity"]).n,
                            int(raw_entry.o["occurrence"]).n,
                            int(raw_entry.o["detection"]).n))

\* the body of the try: for the element at 0-based index i
TryElement(i, raw_entry) ==
    IF raw_entry.ty # "object" THEN ElemRaises("TypeError")
    ELSE TryCreate(i, raw_entry, RaisingArgs(raw_entry))

\* except (KeyError, ValueError, TypeError): pydantic's ValidationError is a
\* ValueError; OverflowError is an ArithmeticError and is not caught
Caught(exc) == exc \in {"KeyError", "ValueError", "TypeError", "ValidationError"}

RECURSIVE ParseLoop(_, _, _, _)

\* the loop body skipping a failed element without recording the error
LoopStep_drop(raw_entries, k, entries, errors, r) ==
    IF r.exc = "" THEN ParseLoop(raw_entries, k + 1, Append(entries, r.entry), errors)
    ELSE IF Caught(r.exc)
    THEN ParseLoop(raw_entries, k + 1, entries, errors)
    ELSE [exc |-> r.exc, entries |-> entries, errors |-> errors]

\* one pass of the loop body, r being what the try gave for position k
LoopStep(raw_entries, k, entries, errors, r) ==
    IF r.exc = "" THEN ParseLoop(raw_entries, k + 1, Append(entries, r.entry), errors)
    ELSE IF Caught(r.exc)
    THEN ParseLoop(raw_entries, k + 1, entries,
                   Append(errors, [index |-> k, exc |-> r.exc]))
    ELSE [exc |-> r.exc, entries |-> entries, errors |-> errors]

\* the loop numbering an element by the entries built so far
ParseLoop_by_successes(raw_entries, k, entries, errors) ==
    IF k > Len(raw_entries)
    THEN [exc |-> "", entries |-> entries, errors |-> errors]
    ELSE LoopStep(raw_entries, k, entries, errors,
                  TryElement(Len(entries), raw_entries[k]))

\* the loop from the 1-based position k on
ParseLoop(raw_entries, k, entries, errors) ==
    IF k > Len(raw_entries)
    THEN [exc |-> "", entries |-> entries, errors |-> errors]
    ELSE LoopStep(raw_entries, k, entries, errors,
                  TryElement(k - 1, raw_entries[k]))

\* the length of the prefix of the reply quoted in an error
PrefixLen == 500

Prefix(text) == SubSeq(text, 1, IF Len(text) < PrefixLen THEN Len(text) ELSE PrefixLen)

ParseRaises(exc, msg, prefix, n_errors, printed) ==
    [ok |-> FALSE, exc |-> exc, msg |-> msg, prefix |-> prefix,
     n_errors |-> n_errors, entries |-> <<>>, stderr |-> printed]

ParseReturns(entries, printed) ==
    [ok |-> TRUE, exc |-> "", msg |-> "", prefix |-> <<>>,
     n_errors |-> 0, entries |-> entries, stderr |-> printed]

\* the lines printed for the collected errors (none when there is none)
Warnings(errors) ==
    IF errors = <<>> THEN <<>>
    ELSE <<[line |-> "warning", n |-> Len(errors)]>>
         \o [j \in 1..Len(errors) |->
               [line |-> "entry_error", n |-> errors[j].index, exc |-> errors[j].exc]]

\* lines 141-152: what follows the loop, done being how the loop ended
AfterLoop(done) ==
    IF done.exc # "" THEN ParseRaises(done.exc, "uncaught", <<>>, Len(done.errors), <<>>)
    ELSE IF done.entries = <<>>
    THEN ParseRaises("ValueError", "no_valid_entries", <<>>, Len(done.errors),
                     Warnings(done.errors))
    ELSE ParseReturns(done.entries, Warnings(done.errors))

\* lines 120-152: the loop over the decoded list and what follows it
ValidateEntries(raw_entries) == AfterLoop(ParseLoop(raw_entries, 1, <<>>, <<>>))

\* lines 112-118: decoded is what json.loads made of json_str
ParseDecoded(json_str, decoded) ==
    IF ~decoded.ok
    THEN ParseRaises("ValueError", "json_decode", Prefix(json_str), 0, <<>>)
    ELSE IF decoded.v.ty # "list"
    THEN ParseRaises("ValueError", "not_a_list", <<>>, 0, <<>>)
    ELSE ValidateEntries(decoded.v.items)

ParseCandidate(json_str) == ParseDecoded(json_str, json_loads(json_str))

\* lines 102-110 quoting the cleaned text in the error instead of raw
ParseBetween_cleaned(raw, cleaned, start, end) ==
    IF start = 0 \/ end = 0
    THEN ParseRaises("ValueError", "no_json_array", Prefix(cleaned), 0, <<>>)
    ELSE ParseCandidate(Slice(cleaned, start, end))

\* lines 102-110: start and end are 1-based, 0 for Python's -1
ParseBetween(raw, cleaned, start, end) ==
    IF start = 0 \/ end = 0
    THEN ParseRaises("ValueError", "no_json_array", Prefix(raw), 0, <<>>)
    ELSE ParseCandidate(Slice(cleaned, start, end))

\* the whole cleaned text handed to json.loads
ParseCleaned_whole(raw, cleaned) == ParseCandidate(cleaned)

ParseCleaned(raw, cleaned) ==
    ParseBetween(raw, cleaned, Find(cleaned, "["), RFind(cleaned, "]"))

\* _parse_and_validate_entries(raw)
parse_and_validate_entries(raw) == ParseCleaned(raw, Clean(raw))

(***************************************************************************)
(* The replies the model client is given to return.                        *)
(***************************************************************************)
Keys == {ArgOrder[j] : j \in 1..Len(ArgOrder)}

\* a JSON object with all nine keys, text "x" and the given ratings
Obj(severity, occurrence, detection) ==
    PyObject([k \in Keys |->
        CASE k = "severity" -> severity
          [] k = "occurrence" -> occurrence
          [] k = "detection" -> detection
          [] OTHER -> PyStr(<<"x">>)])

Without(obj, k) == PyObject([j \in DOMAIN obj.o \ {k} |-> obj.o[j]])
With(obj, k, v) == PyObject([obj.o EXCEPT ![k] = v])

\* the JSON values tried as a rating
RatingValues ==
    {PyInt(0), PyInt(10), PyInt(11), PyFloat(59), PyBool(1),
     PyStr(<<"7">>), PyStr(<<"h", "i">>), PyNone, PyNaN, PyInf(1), PyInf(-1)}

\* the elements tried: values that are no object, objects lacking a key,
\* objects with a text field that is no string or is empty, and objects
\* with one rating taken from RatingValues
Elements ==
    {PyInt(5), PyList(<<>>)}
    \cup {Without(Obj(PyInt(5), PyInt(5), PyInt(8)), k) :
            k \in {"component", "severity", "recommended_action"}}
    \cup {With(Obj(PyInt(5), PyInt(5), PyInt(8)), "failure_mode", v) :
            v \in {PyInt(3), PyStr(<<>>)}}
    \cup {Obj(v, PyInt(5), PyInt(8)) : v \in RatingValues}
    \cup {Obj(PyInt(5), v, PyInt(8)) : v \in {PyInf(1)}}
    \cup {Obj(PyInt(5), PyInt(5), v) : v \in {PyInt(4), PyNone}}

RECURSIVE SeqsUpTo(_, _)
SeqsUpTo(S, n) ==
    IF n = 0 THEN {<<>>}
    ELSE LET shorter == SeqsUpTo(S, n - 1) IN
         shorter \cup {Append(q, x) : q \in {r \in shorter : Len(r) = n - 1}, x \in S}

\* json.dumps of a list: the items separated by a comma and a blank
RECURSIVE Items(_)
Items(values) ==
    IF values = <<>> THEN <<>>
    ELSE IF Len(values) = 1 THEN <<Val(values[1])>>
    ELSE <<Val(values[1]), COMMA, SP>> \o Items(Tail(values))

Dumps(values) == <<LB>> \o Items(values) \o <<RB>>

\* a reply in a fenced block: the opening line "```tag", the text, "```"
Fenced(tag, text) == <<FENCE>> \o tag \o <<NL>> \o text \o <<NL, FENCE>>

\* replies that hold an array: bare, fenced, and with narration around it
ArrayReplies ==
    LET arrays == SeqsUpTo(Elements, MaxLen) IN
    {Dumps(a) : a \in arrays}
    \cup {Fenced(<<JSONTAG>>, Dumps(a)) : a \in arrays}
    \cup {<<WORD, NL>> \o Dumps(a) \o <<NL, WORD>> : a \in arrays}

\* a reply of more than PrefixLen characters that holds no bracket: a
\* blank, then commas
LongReply == <<SP>> \o [j \in 1..(PrefixLen + 1) |-> COMMA]

\* replies that hold none, or one that does not decode
OddReplies ==
    {<<>>, <<WORD>>, <<WORD, LB>>, <<RB, WORD>>, <<RB, WORD, LB>>,
     <<LB, COMMA, RB>>, <<LB, WORD, RB>>,
     <<LB, Val(Obj(PyInt(5), PyInt(5), PyInt(8))), RB, WORD, LB, RB>>,
     Fenced(<<JSONTAG>>, <<WORD>>), Fenced(<<>>, <<WORD, SP, RB>>), LongReply}

Replies == ArrayReplies \cup OddReplies

(***************************************************************************)
(* Inputs of the scoring specification.                                    *)
(***************************************************************************)
Ratings == (1 - Slack)..(10 + Slack)
Rpns == (0 - Slack)..(1000 + Slack)

\* the rpn values tried against a ratings triple: around the product and
\* around the limits of the field and of the tiers
RpnsNear(p) == {p - 1, p, p + 1, 0 - p, 0, 1, 99, 100, 400, 1000, 1001}

GoodText == [f \in TextFields |-> PyStr(<<"x">>)]
AnId == PyStr(<<"D","F","M","E","A","-","0","0","1">>)

RiskInputs == RiskLevel \cup {<<"n","o","n","e">>}

(***************************************************************************)
(* The scoring specification: one call of one operation per behaviour.     *)
(***************************************************************************)
Idle == [op |-> "idle"]

ComputeRpn ==
    /\ call = Idle
    /\ \E s \in Ratings, o \in Ratings, d \in Ratings :
         call' = [op |-> "compute_rpn", severity |-> s, occurrence |-> o,
                  detection |-> d, result |-> compute_rpn(s, o, d)]
    /\ UNCHANGED <<pc, request, calls, raw_content, response, error, stderr>>

ClassifyRisk ==
    /\ call = Idle
    /\ \E rpn \in Rpns :
         call' = [op |-> "classify_risk", rpn |-> rpn,
                  result |-> classify_risk(rpn)]
    /\ UNCHANGED <<pc, request, calls, raw_content, response, error, stderr>>

Construct ==
    /\ call = Idle
    /\ \E s \in Ratings, o \in Ratings, d \in Ratings :
       \E rpn \in RpnsNear(s * o * d), risk \in RiskInputs :
         call' = [op |-> "construct", severity |-> s, occurrence |-> o,
                  detection |-> d, rpn |-> rpn, risk_level |-> risk,
                  result |-> FMEAEntry(Kwargs(AnId, GoodText, PyInt(s), PyInt(o),
                                              PyInt(d), PyInt(rpn), PyStr(risk)))]
    /\ UNCHANGED <<pc, request, calls, raw_content, response, error, stderr>>

Create ==
    /\ call = Idle
    /\ \E s \in Ratings, o \in Ratings, d \in Ratings :
         call' = [op |-> "create", severity |-> s, occurrence |-> o,
                  detection |-> d, result |-> create(AnId, GoodText, s, o, d)]
    /\ UNCHANGED <<pc, request, calls, raw_content, response, error, stderr>>

NoRequest == [system_name |-> <<>>, scope |-> ""]
NoError == [exc |-> "", msg |-> ""]
NoResponse == [built |-> FALSE]

Init ==
    /\ call = Idle
    /\ pc = "idle"
    /\ request = NoRequest
    /\ calls = 0
    /\ raw_content = <<>>
    /\ response = NoResponse
    /\ error = NoError
    /\ stderr = <<>>

Next == ComputeRpn \/ ClassifyRisk \/ Construct \/ Create

Spec == Init /\ [][Next]_vars

(***************************************************************************)
(* The parser specification: one call of _parse_and_validate_entries on a  *)
(* reply.                                                                  *)
(***************************************************************************)
Parse ==
    /\ call = Idle
    /\ \E raw \in Replies :
         call' = [op |-> "parse", raw |-> raw,
                  result |-> parse_and_validate_entries(raw)]
    /\ UNCHANGED <<pc, request, calls, raw_content, response, error, stderr>>

ParseNext == Parse

SpecParse == Init /\ [][ParseNext]_vars

(***************************************************************************)
(* The fence specification: the parser run on a text, then on the same     *)
(* text wrapped in a fenced code block.                                    *)
(***************************************************************************)
TextTokens ==
    {FENCE, NL, SP, LB, RB, COMMA, Val(Obj(PyInt(9), PyInt(3), PyInt(5)))}

Texts == SeqsUpTo(TextTokens, MaxTextLen)

\* the opening line's language tag: none, json, another word
Tags == {<<>>, <<JSONTAG>>, <<WORD>>}

ParsePlain ==
    /\ call = Idle
    /\ \E text \in Texts :
         call' = [op |-> "parse_plain", text |-> text,
                  plain |-> parse_and_validate_entries(text)]
    /\ UNCHANGED <<pc, request, calls, raw_content, response, error, stderr>>

ParseFenced ==
    /\ call.op = "parse_plain"
    /\ \E tag \in Tags :
         call' = [op |-> "parse_fenced", text |-> call.text, plain |-> call.plain,
                  tag |-> tag,
                  fenced |-> parse_and_validate_entries(Fenced(tag, call.text))]
    /\ UNCHANGED <<pc, request, calls, raw_content, response, error, stderr>>

FenceNext == ParsePlain \/ ParseFenced

SpecFence == Init /\ [][FenceNext]_vars

(***************************************************************************)
(* The run specification: agent.py, run_dfmea_agent.                       *)
(***************************************************************************)
Scopes == {"design", "process", "system"}

Requests ==
    {[system_name |-> <<"A">>, scope |-> "design"],
     [system_name |-> <<"B">>, scope |-> "process"],
     [system_name |-> <<"A">>, scope |-> "system"]}

\* FMEAOutput(...) as built on lines 79-86
FMEAOutput(input_data, entries, summary) ==
    [built |-> TRUE,
     system_name |-> input_data.system_name,
     analysis_date |-> "today",
     doi_reference |-> "10.3390/su12010077",
     scope |-> input_data.scope,
     entries |-> entries,
     summary |-> summary,
     html_report |-> "None"]

RunInit ==
    /\ call = Idle
    /\ pc = "start"
    /\ request \in Requests
    /\ calls = 0
    /\ raw_content = <<>>
    /\ response = NoResponse
    /\ error = NoError
    /\ stderr = <<>>

\* lines 41-68: the client is built, the prompt assembled, the call made
Invoke ==
    /\ pc = "start"
    /\ pc' = "awaiting"
    /\ calls' = calls + 1
    /\ stderr' = Append(stderr, [line |-> "calling", n |-> 0])
    /\ UNCHANGED <<call, request, raw_content, response, error>>

\* the call raises and the run goes back to make the call again
TransportError_retry ==
    /\ pc = "awaiting"
    /\ pc' = "start"
    /\ error' = [exc |-> "APIError", msg |-> "transport"]
    /\ UNCHANGED <<call, request, calls, raw_content, response, stderr>>

\* the call raises: nothing of lines 70-86 runs
TransportError ==
    /\ pc = "awaiting"
    /\ pc' = "raised"
    /\ error' = [exc |-> "APIError", msg |-> "transport"]
    /\ UNCHANGED <<call, request, calls, raw_content, response, stderr>>

\* lines 73-86 returning a response whatever the parser gave, raised or not
Finish_lenient(raw, parsed) ==
    /\ raw_content' = raw
    /\ pc' = "returned"
    /\ response' = FMEAOutput(request, parsed.entries, from_entries(parsed.entries))
    /\ stderr' = stderr \o <<[line |-> "received", n |-> Len(raw)]>> \o parsed.stderr
    /\ error' = error

\* lines 73-86, parsed being what _parse_and_validate_entries(raw) gave
Finish(raw, parsed) ==
    /\ raw_content' = raw
    /\ IF parsed.ok
       THEN /\ pc' = "returned"
            /\ response' = FMEAOutput(request, parsed.entries,
                                      from_entries(parsed.entries))
            /\ stderr' = stderr \o <<[line |-> "received", n |-> Len(raw)]>>
                                \o parsed.stderr
                                \o <<[line |-> "validated", n |-> Len(parsed.entries)]>>
            /\ error' = error
       ELSE /\ pc' = "raised"
            /\ error' = [exc |-> parsed.exc, msg |-> parsed.msg]
            /\ stderr' = stderr \o <<[line |-> "received", n |-> Len(raw)]>>
                                \o parsed.stderr
            /\ response' = response

\* lines 70-73: the reply is stripped and parsed
Received(raw) == Finish(raw, parse_and_validate_entries(raw))

\* the call returns a reply
Reply ==
    /\ pc = "awaiting"
    /\ \E text \in Replies : Received(Strip(text))
    /\ UNCHANGED <<call, request, calls>>

RunNext == Invoke \/ TransportError \/ Reply

SpecRun == RunInit /\ [][RunNext]_vars

(***************************************************************************)
(* fmea_schema.py: FMEAInput and ComponentInput, the request models.       *)
(***************************************************************************)
\* str = Field(..., min_length=1)
StrMin1(v) == v.ty = "str" /\ Len(v.s) >= 1

ScopeChars == {<<"d","e","s","i","g","n">>, <<"p","r","o","c","e","s","s">>,
               <<"s","y","s","t","e","m">>}

\* the scope as the run holds it
ScopeName(chars) ==
    CASE chars = <<"d","e","s","i","g","n">> -> "design"
      [] chars = <<"p","r","o","c","e","s","s">> -> "process"
      [] chars = <<"s","y","s","t","e","m">> -> "system"

\* ComponentInput: name and function required, strings of length >= 1
ComponentInputOk(c) ==
    /\ c.ty = "object"
    /\ "name" \in DOMAIN c.o /\ StrMin1(c.o["name"])
    /\ "function" \in DOMAIN c.o /\ StrMin1(c.o["function"])

\* list[ComponentInput] = Field(..., min_length=1)
ComponentsOk(v) ==
    /\ v.ty = "list"
    /\ Len(v.items) >= 1
    /\ \A j \in 1..Len(v.items) : ComponentInputOk(v.items[j])

\* the fields of FMEAInput(**raw) that fail validation
FMEAInputErrors(raw) ==
    {f \in {"system_name", "system_description"} :
        f \notin DOMAIN raw.o \/ ~StrMin1(raw.o[f])}
    \cup (IF "components" \in DOMAIN raw.o /\ ComponentsOk(raw.o["components"])
          THEN {} ELSE {"components"})
    \cup (IF "scope" \notin DOMAIN raw.o
             \/ (raw.o["scope"].ty = "str" /\ raw.o["scope"].s \in ScopeChars)
          THEN {} ELSE {"scope"})

\* the validated request: scope defaults to design
InputOf(raw) ==
    [system_name |-> raw.o["system_name"].s,
     system_description |-> raw.o["system_description"].s,
     components |-> [j \in 1..Len(raw.o["components"].items) |->
                       [name |-> raw.o["components"].items[j].o["name"].s,
                        function |-> raw.o["components"].items[j].o["function"].s]],
     scope |-> IF "scope" \in DOMAIN raw.o THEN ScopeName(raw.o["scope"].s)
               ELSE "design"]

\* FMEAInput(**raw): ** needs a mapping
FMEAInput(raw) ==
    IF raw.ty # "object" THEN Raised("TypeError", {})
    ELSE IF FMEAInputErrors(raw) # {}
    THEN Raised("ValidationError", FMEAInputErrors(raw))
    ELSE Built(InputOf(raw))

(***************************************************************************)
(* main.py: the command line run.  call holds what the process is started  *)
(* with: the environment variable, the arguments, whether stdin is a pipe, *)
(* whether the input file exists, and the text read from the file or from  *)
(* stdin (a JSON value, or text that is no JSON).                          *)
(***************************************************************************)
Component(name, function) ==
    PyObject([k \in {"name", "function"} |->
                IF k = "name" THEN PyStr(name) ELSE PyStr(function)])

\* a payload with all four fields
Payload(system_name, system_description, components, scope) ==
    PyObject([k \in {"system_name", "system_description", "components", "scope"} |->
        CASE k = "system_name" -> system_name
          [] k = "system_description" -> system_description
          [] k = "components" -> components
          [] k = "scope" -> scope])

GoodPayload ==
    Payload(PyStr(<<"A">>), PyStr(<<"d">>),
            PyList(<<Component(<<"c">>, <<"f">>)>>),
            PyStr(<<"p","r","o","c","e","s","s">>))

NotJson == [ty |-> "not_json", n |-> 0, s |-> <<>>]

\* what the input file or stdin holds
Contents ==
    {NotJson, PyList(<<>>), GoodPayload,
     Without(GoodPayload, "scope"),
     Without(GoodPayload, "system_name"),
     Without(GoodPayload, "components"),
     With(GoodPayload, "system_name", PyStr(<<>>)),
     With(GoodPayload, "system_name", PyInt(3)),
     With(GoodPayload, "system_description", PyStr(<<>>)),
     With(GoodPayload, "components", PyList(<<>>)),
     With(GoodPayload, "components", PyList(<<Component(<<>>, <<"f">>)>>)),
     With(GoodPayload, "components",
          PyList(<<Component(<<"c">>, <<"f">>), Component(<<"c">>, <<>>)>>)),
     With(GoodPayload, "components",
          PyList(<<Without(Component(<<"c">>, <<"f">>), "function")>>)),
     With(GoodPayload, "scope", PyStr(<<"o","t","h","e","r">>))}

\* EXAMPLE_INPUT, its texts shortened
EXAMPLE_INPUT ==
    [system_name |-> <<"B">>, system_description |-> <<"h">>,
     components |-> <<[name |-> <<"c">>, function |-> <<"a">>],
                      [name |-> <<"r">>, function |-> <<"e">>]>>,
     scope |-> "design"]

MainCalls ==
    [op : {"main"}, api_key : BOOLEAN, input_file : BOOLEAN, example : BOOLEAN,
     pipe_mode : BOOLEAN, json_only : BOOLEAN, file_exists : BOOLEAN,
     content : Contents]

\* which of the three branches of lines 131-153 is taken
Source(args) ==
    IF args.input_file /\ ~args.example THEN "file"
    ELSE IF ~args.example /\ args.pipe_mode THEN "stdin"
    ELSE "example"

MainInit ==
    /\ call \in MainCalls
    /\ pc = "main"
    /\ request = NoRequest
    /\ calls = 0
    /\ raw_content = <<>>
    /\ response = NoResponse
    /\ error = NoError
    /\ stderr = <<>>

\* lines 121-128 with the test of the variable left out
CheckApiKey_nocheck ==
    /\ pc = "main"
    /\ pc' = "load"
    /\ UNCHANGED <<call, request, calls, raw_content, response, error, stderr>>

\* lines 121-128
CheckApiKey ==
    /\ pc = "main"
    /\ IF ~call.api_key
       THEN /\ stderr' = Append(stderr, [line |-> "error_no_api_key", n |-> 0])
            /\ pc' = "exit1"
       ELSE /\ pc' = "load"
            /\ stderr' = stderr
    /\ UNCHANGED <<call, request, calls, raw_content, response, error>>

\* FMEAInput(**raw) on lines 139 and 148, made being what it gave
Loaded(made, from) ==
    IF made.ok
    THEN /\ request' = made.entry
         /\ pc' = "start"
         /\ stderr' = Append(stderr, [line |-> from, n |-> 0])
         /\ error' = error
    ELSE /\ pc' = "raised"
         /\ error' = [exc |-> made.exc, msg |-> "input"]
         /\ UNCHANGED <<request, stderr>>

\* lines 131-140: the input file
LoadFile ==
    IF ~call.file_exists
    THEN /\ stderr' = Append(stderr, [line |-> "error_file_not_found", n |-> 0])
         /\ pc' = "exit1"
         /\ UNCHANGED <<request, error>>
    ELSE IF call.content = NotJson
    THEN /\ pc' = "raised"
         /\ error' = [exc |-> "JSONDecodeError", msg |-> "input"]
         /\ UNCHANGED <<request, stderr>>
    ELSE Loaded(FMEAInput(call.content), "loaded_file")

\* lines 141-149: stdin
LoadStdin ==
    IF call.content = NotJson
    THEN /\ stderr' = Append(stderr, [line |-> "error_invalid_json", n |-> 0])
         /\ pc' = "exit1"
         /\ UNCHANGED <<request, error>>
    ELSE Loaded(FMEAInput(call.content), "loaded_stdin")

\* lines 150-153: the built-in example
LoadExample ==
    /\ request' = EXAMPLE_INPUT
    /\ pc' = "start"
    /\ stderr' = Append(stderr, [line |-> "using_example", n |-> 0])
    /\ error' = error

\* lines 130-153
LoadInput ==
    /\ pc = "load"
    /\ CASE Source(call) = "file" -> LoadFile
         [] Source(call) = "stdin" -> LoadStdin
         [] OTHER -> LoadExample
    /\ UNCHANGED <<call, calls, raw_content, response>>

\* the replies given to a command line run: the odd ones and the arrays
\* of one element
MainReplies == OddReplies \cup {Dumps(<<e>>) : e \in Elements}

\* line 156: the call returns a reply
MainReply ==
    /\ pc = "awaiting"
    /\ \E text \in MainReplies : Received(Strip(text))
    /\ UNCHANGED <<call, request, calls>>

\* lines 158-171: the report is rendered into the response unless skipped
\* (the output directory is left at its default ".")
Report ==
    /\ pc = "returned"
    /\ pc' = "done"
    /\ IF call.json_only \/ call.pipe_mode
       THEN /\ response' = response
            /\ stderr' = stderr
       ELSE /\ response' = [response EXCEPT !.html_report = "rendered"]
            /\ stderr' = Append(stderr, [line |-> "rendered", n |-> 0])
    /\ UNCHANGED <<call, request, calls, raw_content, error>>

MainNext ==
    CheckApiKey \/ LoadInput \/ Invoke \/ TransportError \/ MainReply \/ Report

SpecMain == MainInit /\ [][MainNext]_vars

(***************************************************************************)
(* The summary specification: FMEASummary.from_entries on a collection of  *)
(* entries the factory built.                                              *)
(***************************************************************************)
\* ratings whose products are 8, 100, 1000, 200, 1, 98 and 400
SummaryTriples ==
    {<<2, 2, 2>>, <<10, 10, 1>>, <<10, 10, 10>>, <<5, 5, 8>>, <<1, 1, 1>>,
     <<7, 7, 2>>, <<5, 8, 10>>}

EntryPool ==
    {create(AnId, GoodText, x[1], x[2], x[3]).entry : x \in SummaryTriples}

\* collections of eight entries of rpn 1 or 8: sum/8 is a rounding tie
\* (.125, .375, .625, .875) when the number of 8s is odd
TieInputs ==
    {q \in [1..8 -> {create(AnId, GoodText, 1, 1, 1).entry,
                     create(AnId, GoodText, 2, 2, 2).entry}] : TRUE}

SummaryInputs == SeqsUpTo(EntryPool, MaxEntries) \cup TieInputs

Summarize ==
    /\ call = Idle
    /\ \E entries \in SummaryInputs :
         call' = [op |-> "summarize", entries |-> entries,
                  result |-> from_entries(entries)]
    /\ UNCHANGED <<pc, request, calls, raw_content, response, error, stderr>>

SummaryNext == Summarize

SpecSummary == Init /\ [][SummaryNext]_vars

(***************************************************************************)
(* The object specification: an entry the factory built, and what can be   *)
(* done with it afterwards.  FMEAEntry is a pydantic BaseModel declared    *)
(* without a model_config: it is neither frozen nor validated on           *)
(* assignment, so "entry.field = value" stores the value as given.         *)
(***************************************************************************)
\* the attributes assigned to and the values assigned
AssignedFields == {"severity", "occurrence", "detection", "rpn", "risk_level"}

AssignedValues(field) ==
    CASE field = "rpn" -> {1, 1000}
      [] field = "risk_level" -> {<<"n","o","n","e">>}
      [] OTHER -> {1, 11}

\* entry.field = value
setattr(entry, field, value) == [entry EXCEPT ![field] = value]

\* what the report's template is given of an output (renderer.py): the
\* entries and the flattened summary, read only
RenderContext(entries, summary) ==
    [entries |-> entries,
     total_entries |-> summary.total_entries,
     critical_count |-> summary.critical_count,
     high_count |-> summary.high_count,
     medium_count |-> summary.medium_count,
     low_count |-> summary.low_count,
     max_rpn |-> summary.max_rpn,
     avg_rpn |-> summary.avg_rpn]

\* FMEAEntry.create(...): made keeps the entry as it was constructed
MakeEntry ==
    /\ call = Idle
    /\ \E e \in EntryPool :
         call' = [op |-> "entry", made |-> e, entry |-> e, last |-> "create",
                  out |-> <<>>]
    /\ UNCHANGED <<pc, request, calls, raw_content, response, error, stderr>>

SetAttr ==
    /\ call.op = "entry"
    /\ \E field \in AssignedFields : \E value \in AssignedValues(field) :
         call' = [call EXCEPT !.entry = setattr(call.entry, field, value),
                              !.last = "setattr"]
    /\ UNCHANGED <<pc, request, calls, raw_content, response, error, stderr>>

Aggregate ==
    /\ call.op = "entry"
    /\ call' = [call EXCEPT !.out = <<from_entries(<<call.entry>>)>>,
                            !.last = "from_entries"]
    /\ UNCHANGED <<pc, request, calls, raw_content, response, error, stderr>>

Render ==
    /\ call.op = "entry"
    /\ call' = [call EXCEPT !.out = <<RenderContext(<<call.entry>>,
                                                    from_entries(<<call.entry>>))>>,
                            !.last = "render"]
    /\ UNCHANGED <<pc, request, calls, raw_content, response, error, stderr>>

ObjectNext == MakeEntry \/ SetAttr \/ Aggregate \/ Render

SpecObject == Init /\ [][ObjectNext]_vars

InRange(x) == x >= 1 /\ x <= 10

(***************************************************************************)
(* C1: direct construction with in-range ratings and an rpn other than     *)
(* severity*occurrence*detection raises and produces no entry.             *)
(***************************************************************************)
C1_RpnMismatchRejected ==
    (/\ call.op = "construct"
     /\ InRange(call.severity) /\ InRange(call.occurrence) /\ InRange(call.detection)
     /\ call.rpn # call.severity * call.occurrence * call.detection)
    => (~call.result.ok /\ "entry" \notin DOMAIN call.result)

\* the mismatch is the only thing wrong: rpn is in [1,1000] and risk_level
\* is the tier of the supplied rpn
C1_Witness ==
    /\ call.op = "construct"
    /\ InRange(call.severity) /\ InRange(call.occurrence) /\ InRange(call.detection)
    /\ call.rpn # call.severity * call.occurrence * call.detection
    /\ call.rpn >= 1 /\ call.rpn <= 1000
    /\ call.risk_level = classify_risk(call.rpn)
    /\ call.result.why = {"rpn_mismatch"}

(***************************************************************************)
(* C2: direct construction with in-range ratings and a risk_level other    *)
(* than the tier of the supplied rpn raises, also when rpn is the product. *)
(***************************************************************************)
C2_RiskMismatchRejected ==
    (/\ call.op = "construct"
     /\ InRange(call.severity) /\ InRange(call.occurrence) /\ InRange(call.detection)
     /\ call.risk_level # classify_risk(call.rpn))
    => (~call.result.ok /\ "entry" \notin DOMAIN call.result)

\* severity=9, occurrence=9, detection=9, rpn=729, risk_level="low"
C2_Witness ==
    /\ call.op = "construct"
    /\ call.severity = 9 /\ call.occurrence = 9 /\ call.detection = 9
    /\ call.rpn = 729
    /\ call.risk_level = <<"l","o","w">>
    /\ call.result.why = {"risk_level_mismatch"}

(***************************************************************************)
(* C3: the factory, on any integer triple, raises or returns an entry with *)
(* ratings in [1,10], rpn = severity*occurrence*detection within [1,1000]  *)
(* and risk_level the tier of rpn.                                         *)
(***************************************************************************)
Tier(rpn) ==
    IF rpn < 100 THEN <<"l","o","w">>
    ELSE IF rpn < 200 THEN <<"m","e","d","i","u","m">>
    ELSE IF rpn < 400 THEN <<"h","i","g","h">>
    ELSE <<"c","r","i","t","i","c","a","l">>

Consistent(e) ==
    /\ InRange(e.severity) /\ InRange(e.occurrence) /\ InRange(e.detection)
    /\ e.rpn = e.severity * e.occurrence * e.detection
    /\ e.rpn >= 1 /\ e.rpn <= 1000
    /\ e.risk_level = Tier(e.rpn)

C3_FactoryConsistent ==
    call.op = "create" =>
        \/ ~call.result.ok
        \/ /\ Consistent(call.result.entry)
           /\ call.result.entry.severity = call.severity
           /\ call.result.entry.occurrence = call.occurrence
           /\ call.result.entry.detection = call.detection

C3_Witness ==
    /\ call.op = "create"
    /\ call.result.ok
    /\ call.result.entry.rpn = 280
    /\ call.result.entry.risk_level = <<"h","i","g","h">>

\* the factory refusing a triple whose product is a legal rpn
C3_WitnessRaises ==
    /\ call.op = "create"
    /\ call.severity = -1 /\ call.occurrence = -1 /\ call.detection = 5
    /\ ~call.result.ok

(***************************************************************************)
(* C4: direct construction with a rating outside [1,10] raises, also when  *)
(* rpn is the product of the ratings and risk_level the tier of rpn.       *)
(***************************************************************************)
C4_OutOfRangeRejected ==
    (/\ call.op = "construct"
     /\ ~(InRange(call.severity) /\ InRange(call.occurrence) /\ InRange(call.detection)))
    => (~call.result.ok /\ "entry" \notin DOMAIN call.result)

\* severity=11, occurrence=1, detection=1, rpn=11, risk_level="low"
C4_Witness ==
    /\ call.op = "construct"
    /\ call.severity = 11 /\ call.occurrence = 1 /\ call.detection = 1
    /\ call.rpn = 11
    /\ call.risk_level = <<"l","o","w">>
    /\ call.result.why = {"severity"}

(***************************************************************************)
(* C5: classify_risk maps every rpn to a tier, rpn < 100 to low, 100..199  *)
(* to medium, 200..399 to high, rpn >= 400 to critical, and never maps a   *)
(* smaller rpn to a higher tier.                                           *)
(***************************************************************************)
Rank(tier) ==
    CASE tier = <<"l","o","w">> -> 0
      [] tier = <<"m","e","d","i","u","m">> -> 1
      [] tier = <<"h","i","g","h">> -> 2
      [] tier = <<"c","r","i","t","i","c","a","l">> -> 3

C5_ClassifyBands ==
    call.op = "classify_risk" =>
        /\ call.result \in RiskLevel
        /\ call.result = Tier(call.rpn)
        /\ \A r \in Rpns : r <= call.rpn => Rank(classify_risk(r)) <= Rank(call.result)
        /\ call.rpn = 99 => call.result = <<"l","o","w">>
        /\ call.rpn = 100 => call.result = <<"m","e","d","i","u","m">>
        /\ call.rpn = 199 => call.result = <<"m","e","d","i","u","m">>
        /\ call.rpn = 200 => call.result = <<"h","i","g","h">>
        /\ call.rpn = 399 => call.result = <<"h","i","g","h">>
        /\ call.rpn = 400 => call.result = <<"c","r","i","t","i","c","a","l">>
        /\ call.rpn = 1000 => call.result = <<"c","r","i","t","i","c","a","l">>

C5_Witness ==
    /\ call.op = "classify_risk"
    /\ call.rpn = 400
    /\ call.result = <<"c","r","i","t","i","c","a","l">>

(***************************************************************************)
(* C6: for ratings in [1,10], compute_rpn is the product of the three and  *)
(* lies in [1,1000].                                                       *)
(***************************************************************************)
C6_RpnProductInRange ==
    (/\ call.op = "compute_rpn"
     /\ InRange(call.severity) /\ InRange(call.occurrence) /\ InRange(call.detection))
    => /\ call.result = call.severity * call.occurrence * call.detection
       /\ call.result >= 1 /\ call.result <= 1000
       /\ (call.severity = 1 /\ call.occurrence = 1 /\ call.detection = 1
             => call.result = 1)
       /\ (call.severity = 10 /\ call.occurrence = 10 /\ call.detection = 10
             => call.result = 1000)

C6_Witness ==
    /\ call.op = "compute_rpn"
    /\ call.severity = 10 /\ call.occurrence = 10 /\ call.detection = 10
    /\ call.result = 1000

(***************************************************************************)
(* What the parser decodes from a reply: the list json.loads makes of the  *)
(* text between the first "[" and the last "]" of the cleaned reply.       *)
(***************************************************************************)
Candidate(raw) ==
    Slice(Clean(raw), Find(Clean(raw), "["), RFind(Clean(raw), "]"))

DecodesToList(raw) ==
    /\ Find(Clean(raw), "[") # 0
    /\ RFind(Clean(raw), "]") # 0
    /\ json_loads(Candidate(raw)).ok
    /\ json_loads(Candidate(raw)).v.ty = "list"

DecodedList(raw) == json_loads(Candidate(raw)).v.items

\* the element at the 1-based position k builds an entry
Validates(arr, k) == TryElement(k - 1, arr[k]).exc = ""

\* the number an id ends with, and the shape "DFMEA-" and three digits
IdNumber(id) == DigitsVal(SubSeq(id, 7, Len(id)))
IdShape(id) ==
    /\ Len(id) = 9
    /\ SubSeq(id, 1, 6) = <<"D", "F", "M", "E", "A", "-">>
    /\ \A j \in 7..9 : IsDigit(id[j])

(***************************************************************************)
(* C7: whatever an element of the decoded array is, its failure is caught  *)
(* and recorded as one diagnostic, and every element that validates is     *)
(* returned.                                                               *)
(***************************************************************************)
C7_ElementFailureNeverAborts ==
    (call.op = "parse" /\ DecodesToList(call.raw)) =>
        \A arr \in {DecodedList(call.raw)} :
        \A valid \in {{k \in 1..Len(arr) : Validates(arr, k)}} :
           /\ call.result.msg # "uncaught"
           /\ valid # {} =>
                /\ call.result.ok
                /\ \A k \in valid :
                     \E j \in 1..Len(call.result.entries) :
                        call.result.entries[j] = TryElement(k - 1, arr[k]).entry
                /\ Cardinality({j \in 1..Len(call.result.stderr) :
                                  call.result.stderr[j].line = "entry_error"})
                     = Len(arr) - Cardinality(valid)

(***************************************************************************)
(* C8: a run ends raised with no response, or returned with a response of  *)
(* at least one validated entry, the summary of exactly its entries, the   *)
(* request's system_name and scope, the fixed citation and no html_report. *)
(***************************************************************************)
C8_AllOrNothing ==
    /\ pc \in {"start", "awaiting", "raised"} => response = NoResponse
    /\ pc = "raised" => error # NoError
    /\ pc = "returned" =>
         /\ error = NoError
         /\ response.built
         /\ Len(response.entries) >= 1
         /\ \A j \in 1..Len(response.entries) : Consistent(response.entries[j])
         /\ response.summary = from_entries(response.entries)
         /\ response.summary.total_entries = Len(response.entries)
         /\ response.system_name = request.system_name
         /\ response.scope = request.scope
         /\ response.doi_reference = "10.3390/su12010077"
         /\ response.html_report = "None"

\* a run that returned although one element of the reply was skipped
C8_Witness ==
    /\ pc = "returned"
    /\ Len(response.entries) = 1
    /\ \E j \in 1..Len(stderr) : stderr[j].line = "entry_error"
    /\ request.scope = "process"

(***************************************************************************)
(* C9: a returned entry built from the element at 1-based position k has   *)
(* the id "DFMEA-" and k in three digits; the entries are in array order,  *)
(* so their ids are distinct and increasing, with gaps for skipped ones.   *)
(***************************************************************************)
C9_IdsByPosition ==
    (call.op = "parse" /\ call.result.ok) =>
        \A arr \in {DecodedList(call.raw)}, es \in {call.result.entries} :
           /\ \A j \in 1..Len(es) :
                /\ IdShape(es[j].id)
                /\ IdNumber(es[j].id) \in 1..Len(arr)
                /\ Validates(arr, IdNumber(es[j].id))
                /\ es[j] = TryElement(IdNumber(es[j].id) - 1, arr[IdNumber(es[j].id)]).entry
           /\ \A k \in 1..Len(arr) :
                Validates(arr, k) => \E j \in 1..Len(es) : IdNumber(es[j].id) = k
           /\ \A i \in 1..Len(es), j \in 1..Len(es) :
                i < j => (IdNumber(es[i].id) < IdNumber(es[j].id) /\ es[i].id # es[j].id)

\* the first element skipped, the second returned as DFMEA-002
C9_Witness ==
    /\ call.op = "parse"
    /\ call.result.ok
    /\ Len(DecodedList(call.raw)) = 2
    /\ Len(call.result.entries) = 1
    /\ call.result.entries[1].id = <<"D", "F", "M", "E", "A", "-", "0", "0", "2">>

(***************************************************************************)
(* C10: a text the parser accepts gives the same entries when wrapped in a *)
(* fenced code block, with or without a language tag; a text it rejects is *)
(* rejected fenced too.                                                    *)
(***************************************************************************)
C10_FencedSameAsPlain ==
    call.op = "parse_fenced" =>
        /\ call.plain.ok => (call.fenced.ok /\ call.fenced.entries = call.plain.entries)
        /\ ~call.plain.ok => ~call.fenced.ok

C10_Witness ==
    /\ call.op = "parse_fenced"
    /\ call.tag = <<WORD>>
    /\ call.plain.ok
    /\ Len(call.fenced.entries) = 2

(***************************************************************************)
(* C11: a reply whose cleaned text holds no "[" or no "]" is refused with  *)
(* the "does not contain a JSON array" error, nothing being decoded,       *)
(* built or printed, and the error quotes the first 500 characters of the  *)
(* raw reply, not of the cleaned text.                                     *)
(***************************************************************************)
C11_NoArrayFailsWithRawPrefix ==
    (/\ call.op = "parse"
     /\ \E cleaned \in {Clean(call.raw)} :
           \/ \A j \in 1..Len(cleaned) : cleaned[j] # LB
           \/ \A j \in 1..Len(cleaned) : cleaned[j] # RB)
    => /\ ~call.result.ok
       /\ call.result.exc = "ValueError"
       /\ call.result.msg = "no_json_array"
       /\ call.result.entries = <<>>
       /\ call.result.stderr = <<>>
       /\ call.result.n_errors = 0
       /\ Len(call.result.prefix) = (IF Len(call.raw) < 500 THEN Len(call.raw) ELSE 500)
       /\ \A j \in 1..Len(call.result.prefix) : call.result.prefix[j] = call.raw[j]

\* a reply longer than 500 characters whose cleaning removes the first one
C11_Witness ==
    /\ call.op = "parse"
    /\ call.result.msg = "no_json_array"
    /\ Len(call.raw) > 500
    /\ Len(call.result.prefix) = 500
    /\ call.result.prefix[1] = SP
    /\ Head(Clean(call.raw)) = COMMA

\* a fenced reply without brackets: the prefix keeps the fence
C11_WitnessFenced ==
    /\ call.op = "parse"
    /\ call.result.msg = "no_json_array"
    /\ call.raw # <<>>
    /\ Head(call.raw) = FENCE
    /\ call.result.prefix = call.raw
    /\ Clean(call.raw) = <<WORD>>

(***************************************************************************)
(* C12: the summary of a collection of valid entries has total_entries     *)
(* the number of entries and each of the four counts the number of entries *)
(* of that tier; the counts are not negative and add up to total_entries,  *)
(* and are all zero for the empty collection.                              *)
(***************************************************************************)
C12_CountsByTier ==
    call.op = "summarize" =>
        /\ call.result.total_entries = Len(call.entries)
        /\ call.result.critical_count =
             Cardinality({i \in 1..Len(call.entries) :
                            call.entries[i].risk_level = <<"c","r","i","t","i","c","a","l">>})
        /\ call.result.high_count =
             Cardinality({i \in 1..Len(call.entries) :
                            call.entries[i].risk_level = <<"h","i","g","h">>})
        /\ call.result.medium_count =
             Cardinality({i \in 1..Len(call.entries) :
                            call.entries[i].risk_level = <<"m","e","d","i","u","m">>})
        /\ call.result.low_count =
             Cardinality({i \in 1..Len(call.entries) :
                            call.entries[i].risk_level = <<"l","o","w">>})
        /\ call.result.critical_count >= 0 /\ call.result.high_count >= 0
        /\ call.result.medium_count >= 0 /\ call.result.low_count >= 0
        /\ call.result.critical_count + call.result.high_count
             + call.result.medium_count + call.result.low_count
             = call.result.total_entries
        /\ call.entries = <<>> =>
             /\ call.result.total_entries = 0
             /\ call.result.critical_count = 0 /\ call.result.high_count = 0
             /\ call.result.medium_count = 0 /\ call.result.low_count = 0

\* three entries, the first two critical, the third low
C12_Witness ==
    /\ call.op = "summarize"
    /\ Len(call.entries) = 3
    /\ call.entries[1].risk_level = <<"c","r","i","t","i","c","a","l">>
    /\ call.entries[2].risk_level = <<"c","r","i","t","i","c","a","l">>
    /\ call.entries[3].risk_level = <<"l","o","w">>
    /\ call.result.critical_count = 2
    /\ call.result.low_count = 1

C12_WitnessEmpty ==
    /\ call.op = "summarize"
    /\ call.entries = <<>>
    /\ call.result.total_entries = 0

(***************************************************************************)
(* C13: max_rpn is the largest rpn of the collection and avg_rpn (held in  *)
(* hundredths) is within half a hundredth of the mean; rpns 8, 100, 1000   *)
(* give 1000 and 369.33; the empty collection gives 0 and 0.0; otherwise   *)
(* 1 <= avg_rpn <= max_rpn <= 1000.                                        *)
(***************************************************************************)
C13_MaxAndMean ==
    call.op = "summarize" =>
        /\ call.entries = <<>> =>
             (call.result.max_rpn = 0 /\ call.result.avg_rpn = 0)
        /\ call.entries # <<>> =>
             /\ \E i \in 1..Len(call.entries) :
                   call.entries[i].rpn = call.result.max_rpn
             /\ \A i \in 1..Len(call.entries) :
                   call.entries[i].rpn <= call.result.max_rpn
             /\ 2 * (call.result.avg_rpn * Len(call.entries)
                      - 100 * SumRpn(call.entries)) <= Len(call.entries)
             /\ 2 * (100 * SumRpn(call.entries)
                      - call.result.avg_rpn * Len(call.entries)) <= Len(call.entries)
             /\ 100 <= call.result.avg_rpn
             /\ call.result.avg_rpn <= 100 * call.result.max_rpn
             /\ call.result.max_rpn <= 1000
        /\ (/\ Len(call.entries) = 3
            /\ call.entries[1].rpn = 8
            /\ call.entries[2].rpn = 100
            /\ call.entries[3].rpn = 1000)
           => (call.result.max_rpn = 1000 /\ call.result.avg_rpn = 36933)

\* rpns 8, 100, 1000: the mean 369.333... is rounded down to 369.33
C13_Witness ==
    /\ call.op = "summarize"
    /\ Len(call.entries) = 3
    /\ call.entries[1].rpn = 8
    /\ call.entries[2].rpn = 100
    /\ call.entries[3].rpn = 1000
    /\ call.result.avg_rpn = 36933

\* seven entries of rpn 1 and one of rpn 8: the mean 1.875 is a tie and
\* round gives 1.88
C13_WitnessTie ==
    /\ call.op = "summarize"
    /\ Len(call.entries) = 8
    /\ SumRpn(call.entries) = 15
    /\ call.result.avg_rpn = 188

(***************************************************************************)
(* C14: no entry the parser returns has a text field (component, function, *)
(* failure_mode, failure_effect, failure_cause, recommended_action) that   *)
(* is empty or blank: an element with such a field fails validation.       *)
(***************************************************************************)
C14_TextFieldsNonEmpty ==
    (call.op = "parse" /\ call.result.ok) =>
        \A j \in 1..Len(call.result.entries) : \A f \in TextFields :
            StripBlanks(call.result.entries[j][f]) # <<>>

(***************************************************************************)
(* C15: a constructed entry never changes: whatever is done with it, an    *)
(* assignment to one of its attributes included, it stays as constructed   *)
(* and so keeps rpn = severity*occurrence*detection and risk_level the     *)
(* tier of rpn.                                                            *)
(***************************************************************************)
C15_EntryImmutable ==
    call.op = "entry" =>
        /\ call.entry = call.made
        /\ call.entry.rpn
             = call.entry.severity * call.entry.occurrence * call.entry.detection
        /\ call.entry.risk_level = Tier(call.entry.rpn)

(***************************************************************************)
(* C16: a run calls the model client exactly once, whether it returns or   *)
(* raises; when the call fails the run ends with that failure, no reply    *)
(* having been received or parsed, no summary or response built.           *)
(***************************************************************************)
C16_ExactlyOneCall ==
    /\ pc = "start" => calls = 0
    /\ pc \in {"awaiting", "raised", "returned"} => calls = 1
    /\ (pc = "raised" /\ error.exc = "APIError") =>
         /\ error = [exc |-> "APIError", msg |-> "transport"]
         /\ response = NoResponse
         /\ raw_content = <<>>
         /\ stderr = <<[line |-> "calling", n |-> 0]>>

C16_Witness ==
    /\ pc = "raised"
    /\ error.exc = "APIError"
    /\ calls = 1
    /\ response = NoResponse

\* a run that failed in the parser made one call as well
C16_WitnessParserFails ==
    /\ pc = "raised"
    /\ error.msg = "no_valid_entries"
    /\ calls = 1

(***************************************************************************)
(* C17: in a command line run the model client is called only when the     *)
(* credential is set and the request is valid: with ANTHROPIC_API_KEY      *)
(* unset, a missing input file, text that is no JSON, an empty or missing  *)
(* system_name or system_description, an empty components list, a          *)
(* component with an empty name or function, or a scope other than design, *)
(* process, system, the run ends before any call.                          *)
(***************************************************************************)
NonEmptyText(obj, key) ==
    key \in DOMAIN obj.o /\ obj.o[key].ty = "str" /\ obj.o[key].s # <<>>

ValidRequest(content) ==
    /\ content.ty = "object"
    /\ NonEmptyText(content, "system_name")
    /\ NonEmptyText(content, "system_description")
    /\ "components" \in DOMAIN content.o
    /\ content.o["components"].ty = "list"
    /\ content.o["components"].items # <<>>
    /\ \A j \in 1..Len(content.o["components"].items) :
          /\ content.o["components"].items[j].ty = "object"
          /\ NonEmptyText(content.o["components"].items[j], "name")
          /\ NonEmptyText(content.o["components"].items[j], "function")
    /\ "scope" \in DOMAIN content.o =>
          content.o["scope"] \in {PyStr(<<"d","e","s","i","g","n">>),
                                 PyStr(<<"p","r","o","c","e","s","s">>),
                                 PyStr(<<"s","y","s","t","e","m">>)}

C17_NoCallForInvalidRun ==
    (call.op = "main" /\ (calls > 0 \/ pc \in {"start", "awaiting", "returned", "done"})) =>
        /\ call.api_key
        /\ (call.input_file /\ ~call.example) =>
              (call.file_exists /\ ValidRequest(call.content))
        /\ (~call.input_file /\ ~call.example /\ call.pipe_mode) =>
              ValidRequest(call.content)

\* a run stopped by a component with an empty function, the key being set
C17_Witness ==
    /\ call.op = "main"
    /\ call.api_key
    /\ Source(call) = "stdin"
    /\ call.content.ty = "object"
    /\ FMEAInputErrors(call.content) = {"components"}
    /\ pc = "raised"
    /\ error.exc = "ValidationError"
    /\ calls = 0

\* a run stopped by the missing key although the request is valid
C17_WitnessNoKey ==
    /\ call.op = "main"
    /\ ~call.api_key
    /\ call.content = GoodPayload
    /\ pc = "exit1"
    /\ calls = 0

\* a valid run that made the call
C17_WitnessCalled ==
    /\ call.op = "main"
    /\ Source(call) = "file"
    /\ pc = "done"
    /\ calls = 1

(***************************************************************************)
(* C18: the parser raises, once the array is decoded, only when no element *)
(* built an entry, and then with the error that states the number of       *)
(* element errors (0 for the empty array); with at least one element that  *)
(* built an entry it returns, however many elements failed.                *)
(***************************************************************************)
C18_FailsOnlyWhenNoneSucceeded ==
    (call.op = "parse" /\ DecodesToList(call.raw)) =>
        \A arr \in {DecodedList(call.raw)} :
        \A valid \in {{k \in 1..Len(arr) : Validates(arr, k)}} :
           /\ valid = {} =>
                /\ ~call.result.ok
                /\ call.result.exc = "ValueError"
                /\ call.result.msg = "no_valid_entries"
                /\ call.result.n_errors = Len(arr)
           /\ valid # {} => call.result.ok

(***************************************************************************)
(* C19: when the loop has gone through a decoded array of length N, the    *)
(* entries built and the diagnostics recorded are N together: every        *)
(* position is that of exactly one entry or of exactly one diagnostic, and *)
(* the diagnostic of position k names k.                                   *)
(***************************************************************************)
DiagnosticsOf(printed) ==
    {j \in 1..Len(printed) : printed[j].line = "entry_error"}

C19_LoopAccounting ==
    (call.op = "parse" /\ DecodesToList(call.raw) /\ call.result.msg # "uncaught") =>
        \A arr \in {DecodedList(call.raw)}, es \in {call.result.entries},
           diag \in {DiagnosticsOf(call.result.stderr)} :
           /\ Len(es) + Cardinality(diag) = Len(arr)
           /\ \A k \in 1..Len(arr) :
                Cardinality({j \in 1..Len(es) : IdNumber(es[j].id) = k})
                + Cardinality({j \in diag : call.result.stderr[j].n = k}) = 1
           /\ \A j \in diag :
                /\ call.result.stderr[j].n \in 1..Len(arr)
                /\ ~Validates(arr, call.result.stderr[j].n)
           /\ ~call.result.ok => call.result.n_errors = Len(arr)
           /\ diag # {} => call.result.stderr[1] = [line |-> "warning", n |-> Cardinality(diag)]

\* two elements, the first built as DFMEA-001, the second refused and
\* recorded as entry 2
C19_Witness ==
    /\ call.op = "parse"
    /\ DecodesToList(call.raw)
    /\ Len(DecodedList(call.raw)) = 2
    /\ Len(call.result.entries) = 1
    /\ IdNumber(call.result.entries[1].id) = 1
    /\ \E j \in DiagnosticsOf(call.result.stderr) : call.result.stderr[j].n = 2

\* two elements, both refused: no entry, diagnostics 1 and 2
C19_WitnessAllFail ==
    /\ call.op = "parse"
    /\ DecodesToList(call.raw)
    /\ Len(DecodedList(call.raw)) = 2
    /\ call.result.msg = "no_valid_entries"
    /\ call.result.n_errors = 2
    /\ Cardinality(DiagnosticsOf(call.result.stderr)) = 2

(***************************************************************************)
(* C20: the text handed to json.loads starts at the first "[" and ends at  *)
(* the last "]" of the cleaned reply, so what decodes is a list and the    *)
(* parser never raises "Expected a JSON array"; when the last "]" comes    *)
(* before the first "[" that text is empty and the parser raises the       *)
(* decode error, not the "does not contain a JSON array" error.            *)
(***************************************************************************)
FirstOpen(text) ==
    IF \E i \in 1..Len(text) : text[i] = LB
    THEN CHOOSE i \in 1..Len(text) : text[i] = LB /\ \A j \in 1..(i - 1) : text[j] # LB
    ELSE 0

LastClose(text) ==
    IF \E i \in 1..Len(text) : text[i] = RB
    THEN CHOOSE i \in 1..Len(text) : text[i] = RB /\ \A j \in (i + 1)..Len(text) : text[j] # RB
    ELSE 0

ArrayOrError(text, result) ==
    \A cleaned \in {Clean(text)} :
    \A first \in {FirstOpen(cleaned)}, last \in {LastClose(cleaned)} :
       /\ result.msg # "not_a_list"
       /\ (first # 0 /\ last # 0 /\ json_loads(SubSeq(cleaned, first, last)).ok) =>
             json_loads(SubSeq(cleaned, first, last)).v.ty = "list"
       /\ (first # 0 /\ last # 0 /\ last < first) =>
             /\ ~result.ok
             /\ result.exc = "ValueError"
             /\ result.msg = "json_decode"
             /\ result.prefix = <<>>

C20_DecodedIsAlwaysArray ==
    /\ call.op \in {"parse_plain", "parse_fenced"} => ArrayOrError(call.text, call.plain)
    /\ call.op = "parse_fenced" =>
         ArrayOrError(Fenced(call.tag, call.text), call.fenced)

\* "] [": both brackets are there, the last "]" before the first "["
C20_Witness ==
    /\ call.op = "parse_plain"
    /\ call.text = <<RB, SP, LB>>
    /\ call.plain.msg = "json_decode"

\* a lone JSON object between brackets and words: the candidate is the array
C20_WitnessArray ==
    /\ call.op = "parse_plain"
    /\ Len(call.text) = 5
    /\ call.text[1] = COMMA
    /\ call.text[5] = COMMA
    /\ call.plain.ok
====
